---------------------------- MODULE Spec2Model ----------------------------
(***************************************************************************)
(* Model of the web traffic simulator: one process that imports            *)
(* src/web_traffic_simulator.py (configuration loading at import time) and *)
(* then calls run_simulation() once from main.py.                          *)
(*                                                                         *)
(* The only asynchronous event is the delivery of SIGINT/SIGTERM, which    *)
(* runs signal_handler between two steps of the main thread.  Every HTTP   *)
(* transmission is one step, so a signal can arrive during a request,      *)
(* between the two requests of a visit and during the inter-visit wait.    *)
(*                                                                         *)
(* Time is counted in ticks; one second is Unit ticks.                     *)
(***************************************************************************)
EXTENDS Integers, Sequences, FiniteSets, TLC

\* ------------------------------------------------------------------ bounds
\* largest run_count tried
MaxCount == 2
\* ticks per second: delays are multiples of 1/Unit second
Unit == 2
\* largest max_delay tried, in ticks
MaxDelay == 5
\* signal deliveries followed in one run
MaxSignals == 2
\* invocations of run_simulation followed in one process
MaxRuns == 2

\* ------------------------------------------------------- program constants
\* simulation_stats['start_time'] before a campaign has started
None == -1
\* Retry(total=5, ...)
RetryTotal == 5
\* random_ip: random.randint(1, 223) for the first octet
FirstOctetMax == 223
\* random_ip: random.randint(0, 255) for the second and third octets
OctetMax == 255
\* random_ip: random.randint(1, 254) for the fourth octet
LastOctetMax == 254
\* Retry(status_forcelist=[429, 500, 502, 503, 504])
status_forcelist == {429, 500, 502, 503, 504}
\* urllib3's Retry.RETRY_AFTER_STATUS_CODES, honoured because the Retry
\* object is built with the default respect_retry_after_header=True
RETRY_AFTER_STATUS_CODES == {413, 429, 503}
\* required keys of config.json
RequiredKeys == {"detail_url", "click_url", "user_id"}

\* HTTP statuses the two endpoints answer with in the model
Statuses == {200, 304, 404, 413} \cup status_forcelist

\* What one transmission of a request can end in: an HTTP response (with or
\* without a Retry-After header), a connection error or timeout, or an
\* error that is no requests.RequestException.
HttpResponses == [kind : {"http"}, status : Statuses, retry_after : BOOLEAN]
NetErr == [kind |-> "neterr", status |-> 0, retry_after |-> FALSE]
OtherErr == [kind |-> "error", status |-> 0, retry_after |-> FALSE]
Responses == HttpResponses \cup {NetErr, OtherErr}

VARIABLES
    pc,                 \* where the main thread is
    config_file,        \* "missing" | "malformed" | "ok" : config.json on disk
    config,             \* the keys present in config.json
    agents_file,        \* "missing" | "blank" | "ok" : the agents file on disk
    count,              \* run_simulation's count (RUN_COUNT)
    min_delay,          \* MIN_DELAY, ticks
    max_delay,          \* MAX_DELAY, ticks
    clock,              \* time.time(), ticks
    handlers,           \* TRUE once signal.signal installed signal_handler
    shutdown_requested, \* the module global
    simulation_stats,   \* the module global
    user_agents,        \* the list load_user_agents returned
    i,                  \* the loop variable of run_simulation
    retries,            \* Retry.total of the request in flight
    success,            \* the value simulate_session returned
    delay,              \* the delay drawn for the wait in progress, ticks
    chunks_done,        \* iterations of the unit-sleep loop already run
    log,                \* the statistics blocks print_final_stats logged
    exit_code,          \* None while running, else the exit status
    att,                \* history of the visit attempt in progress
    wire,               \* per endpoint: has any request been transmitted
    hist,               \* history of the run: polls, signal, waits
    octets,             \* random_ip: the four octets sampled
    ip_pc               \* random_ip: "idle" | "sample" | "test" | "returned"

vars == << pc, config_file, config, agents_file, count, min_delay, max_delay,
           clock, handlers, shutdown_requested, simulation_stats, user_agents,
           i, retries, success, delay, chunks_done, log, exit_code, att, wire,
           hist, octets, ip_pc >>

ipvars == << octets, ip_pc >>

inputs == << config_file, config, agents_file, count, min_delay, max_delay >>

\* ------------------------------------------------------------ history
NewAttempt ==
    [ click_sent |-> FALSE,     \* the click request was transmitted
      detail |-> "none",        \* "none" | "ok" | "bad_status" | "exc" | "error"
      click |-> "none",         \* "none" | "ok" | "http_error" | "exc" | "error"
      click_status |-> 0,       \* status of the click response returned
      forced |-> 0,             \* retries of the request in flight after a forcelist status
      neterrs |-> 0,            \* ... after a connection error or timeout
      by_header |-> 0,          \* ... after any other response
      cause |-> << >> ]         \* <<status, Retry-After>> of the latest such response

\* history of the inter-visit wait in progress
NewWait ==
    [ slept |-> 0,              \* ticks slept so far
      units |-> 0,              \* one-second sleeps that returned
      rems |-> 0,               \* remainder sleeps that returned
      flag_units |-> None,      \* units when the signal arrived, if it did
      flag_pc |-> "" ]          \* where the wait was when it arrived

WaitPcs == {"sleep_loop", "sleeping", "rem_check", "rem_sleeping"}

NewHist ==
    [ observed |-> FALSE,       \* a poll point has read the flag as set
      done_at_observe |-> 0,    \* attempts completed when it first did
      done |-> 0,               \* attempts that returned a result
      started_after |-> 0,      \* attempts started after the flag was set
      finished_after |-> 0,     \* attempts that returned after the flag was set
      sleeps_after |-> 0,       \* sleeps that ended after the flag was set
      waits |-> 0,              \* inter-visit waits begun
      signals |-> 0,            \* SIGINT/SIGTERM deliveries handled
      runs |-> 1,               \* invocations of run_simulation so far
      wait |-> NewWait,         \* the wait in progress or just ended
      exit |-> "none" ]         \* how the loop was left


\* ------------------------------------------------------- pure functions
\* mutant of Truthy: the guard inverted (`if not ...`)
Truthy_Inverted(x) == ~(x # None /\ x # 0)

\* print_final_stats: `if simulation_stats['start_time']:`
Truthy(x) == x # None /\ x # 0

\* load_config, called at import: "ok" or the exception raised
load_config ==
    IF config_file = "missing" THEN "FileNotFoundError"
    ELSE IF config_file = "malformed" THEN "JSONDecodeError"
    ELSE "ok"

\* mutant of MissingRequiredKey: only detail_url is looked up
MissingRequiredKey_DetailOnly == "detail_url" \notin config

\* DETAIL_URL = config["detail_url"] ...: TRUE when a KeyError is raised
MissingRequiredKey == \E k \in RequiredKeys : k \notin config

\* mutant of load_user_agents: blank lines are kept
load_user_agents_KeepBlank ==
    IF agents_file = "ok" THEN << "Mozilla/5.0" >>
    ELSE IF agents_file = "blank" THEN << "" >>
    ELSE << >>

\* load_user_agents: the non-blank lines of the file, [] when it is missing
load_user_agents == IF agents_file = "ok" THEN << "Mozilla/5.0" >> ELSE << >>

\* mutant of is_retry: every error status is retried
is_retry_AllErrors(status, has_retry_after, total) == status >= 400

\* Retry.is_retry for a GET, as configured by create_session_with_retries
is_retry(status, has_retry_after, total) ==
    \/ status \in status_forcelist
    \/ /\ total # 0
       /\ has_retry_after
       /\ status \in RETRY_AFTER_STATUS_CODES

\* mutant of is_exhausted: the budget is one retry short
is_exhausted_Early(total) == total <= 0

\* Retry.is_exhausted, asked of the Retry object increment() returns
is_exhausted(total) == total < 0

\* What HTTPAdapter.send does with one answer r while Retry.total is total:
\* "retry" (send again with total - 1), "return" the response, "raise" a
\* requests.RequestException (RetryError, ConnectionError, Timeout), or let
\* an "error" that is no RequestException through.
urlopen(total, r) ==
    IF r.kind = "error" THEN "error"
    ELSE IF r.kind = "neterr" \/ is_retry(r.status, r.retry_after, total)
         THEN IF is_exhausted(total - 1) THEN "raise" ELSE "retry"
    ELSE "return"

\* mutant of raise_for_status: only server errors raise
raise_for_status_ServerOnly(status) == 500 <= status /\ status < 600

\* Response.raise_for_status: TRUE when it raises requests.HTTPError
raise_for_status(status) == 400 <= status /\ status < 600

\* mutant of sleep_remainder: the fraction is dropped
sleep_remainder_Dropped(d) == 0

\* sleep_chunks = int(delay); sleep_remainder = delay - sleep_chunks
sleep_chunks(d) == d \div Unit
sleep_remainder(d) == d - sleep_chunks(d) * Unit

\* mutant of InRange: range(1, count), one iteration short
InRange_Short(n) == 1 <= n /\ n < count

\* line 233: n is in range(1, count + 1)
InRange(n) == 1 <= n /\ n <= count

\* mutant of BreakAtLoopHead: the flag is polled by the first iteration only
BreakAtLoopHead_FirstOnly == shutdown_requested /\ i = 0

\* mutant of BreakAtLoopHead: the flag is not polled at the loop head
BreakAtLoopHead_Never == FALSE

\* line 234: `if shutdown_requested: break`
BreakAtLoopHead == shutdown_requested

\* mutant of BreakAfterVisit: the last iteration is not recognised
BreakAfterVisit_NoLast == shutdown_requested

\* line 248: `if shutdown_requested or i == count: break`
BreakAfterVisit == shutdown_requested \/ i = count

\* line 259: `if shutdown_requested: break`
BreakUnitSleep == shutdown_requested

\* mutant of SleepRemainder: the flag is not read before the remainder
SleepRemainder_IgnoresFlag == sleep_remainder(delay) > 0

\* line 263: `if not shutdown_requested and sleep_remainder > 0`
SleepRemainder == ~shutdown_requested /\ sleep_remainder(delay) > 0

\* a poll point reads shutdown_requested: remember the first time it is set
Poll(h) ==
    IF shutdown_requested /\ ~h.observed
    THEN [h EXCEPT !.observed = TRUE, !.done_at_observe = h.done]
    ELSE h

\* the history of the request in flight after answer r caused a retry
Retried(a, r) ==
    IF r.kind = "neterr" THEN [a EXCEPT !.neterrs = @ + 1]
    ELSE IF r.status \in status_forcelist THEN [a EXCEPT !.forced = @ + 1]
    ELSE [a EXCEPT !.by_header = @ + 1, !.cause = << r.status, r.retry_after >>]

\* the request in flight ended: the next one starts with a fresh history
Ended(a) ==
    [a EXCEPT !.forced = 0, !.neterrs = 0, !.by_header = 0, !.cause = << >>]

\* -------------------------------------------------------------- Init
Init ==
    /\ pc = "import"
    /\ config_file \in {"missing", "malformed", "ok"}
    /\ config \in SUBSET RequiredKeys
    /\ config_file # "ok" => config = {}
    /\ agents_file \in {"missing", "blank", "ok"}
    /\ count \in 0..MaxCount
    /\ min_delay \in {0, Unit}
    /\ max_delay \in {min_delay, MaxDelay}
    /\ clock = 1
    /\ handlers = FALSE
    /\ shutdown_requested = FALSE
    /\ simulation_stats = [total_attempts |-> 0, successful_visits |-> 0,
                           failed_visits |-> 0, start_time |-> None]
    /\ user_agents = << >>
    /\ i = 0
    /\ retries = RetryTotal
    /\ success = FALSE
    /\ delay = 0
    /\ chunks_done = 0
    /\ log = << >>
    /\ exit_code = None
    /\ att = NewAttempt
    /\ wire = [detail |-> FALSE, click |-> FALSE]
    /\ hist = NewHist
    /\ octets = << >>
    /\ ip_pc = "idle"

\* ------------------------------------------------------------ actions
\* module import, lines 89-102: exit(1) unless the configuration loads and
\* holds the three required keys
Import ==
    /\ pc = "import"
    /\ IF load_config # "ok" \/ MissingRequiredKey
       THEN /\ exit_code' = 1
            /\ pc' = "exited"
       ELSE /\ exit_code' = exit_code
            /\ pc' = "main"
    /\ UNCHANGED << ipvars, inputs, clock, handlers, shutdown_requested,
                    simulation_stats, user_agents, i, retries, success, delay,
                    chunks_done, log, att, wire, hist >>

\* run_simulation, lines 215-219: install signal_handler for both signals
InstallHandlers ==
    /\ pc = "main"
    /\ handlers' = TRUE
    /\ pc' = "load_agents"
    /\ UNCHANGED << ipvars, inputs, clock, shutdown_requested, simulation_stats,
                    user_agents, i, retries, success, delay, chunks_done, log,
                    exit_code, att, wire, hist >>

\* mutant of signal_handler: a delivery flips the flag
signal_handler_Toggle ==
    /\ handlers
    /\ pc # "exited"
    /\ hist.signals < MaxSignals
    /\ shutdown_requested' = ~shutdown_requested
    /\ hist' = [hist EXCEPT !.signals = @ + 1]
    /\ UNCHANGED << pc, ipvars, inputs, clock, handlers, simulation_stats, user_agents,
                    i, retries, success, delay, chunks_done, log, exit_code,
                    att, wire >>

\* signal_handler, lines 40-44, run for a SIGINT or a SIGTERM
signal_handler ==
    /\ handlers
    /\ pc # "exited"
    /\ hist.signals < MaxSignals
    /\ shutdown_requested' = TRUE
    /\ hist' = IF ~shutdown_requested /\ pc \in WaitPcs
               THEN [hist EXCEPT !.wait.flag_units = hist.wait.units,
                                 !.wait.flag_pc = pc,
                                 !.signals = @ + 1]
               ELSE [hist EXCEPT !.signals = @ + 1]
    /\ UNCHANGED << pc, ipvars, inputs, clock, handlers, simulation_stats, user_agents,
                    i, retries, success, delay, chunks_done, log, exit_code,
                    att, wire >>

\* run_simulation, lines 221-230: abort on an empty pool, else start
LoadAgents ==
    /\ pc = "load_agents"
    /\ user_agents' = load_user_agents
    /\ IF load_user_agents = << >>
       THEN /\ pc' = "return"
            /\ hist' = [hist EXCEPT !.exit = "abort"]
            /\ UNCHANGED simulation_stats
       ELSE /\ pc' = "loop_head"
            /\ simulation_stats' = [simulation_stats EXCEPT !.start_time = clock]
            /\ UNCHANGED hist
    /\ UNCHANGED << ipvars, inputs, clock, handlers, shutdown_requested, i, retries,
                    success, delay, chunks_done, log, exit_code, att, wire >>

\* lines 233-236: the next i of range(1, count + 1), then the first poll
LoopHead ==
    /\ pc = "loop_head"
    /\ IF ~InRange(i + 1)
       THEN /\ pc' = "finally"
            /\ hist' = [hist EXCEPT !.exit = "complete", !.wait = NewWait]
            /\ UNCHANGED i
       ELSE /\ i' = i + 1
            /\ IF BreakAtLoopHead
               THEN /\ pc' = "finally"
                    /\ hist' = [Poll(hist) EXCEPT !.exit = "shutdown",
                                                  !.wait = NewWait]
               ELSE /\ pc' = "begin"
                    /\ hist' = [hist EXCEPT !.wait = NewWait]
    /\ UNCHANGED << ipvars, inputs, clock, handlers, shutdown_requested,
                    simulation_stats, user_agents, retries, success, delay,
                    chunks_done, log, exit_code, att, wire >>

\* lines 238-241 and 176-180: count the attempt and enter simulate_session
Begin ==
    /\ pc = "begin"
    /\ simulation_stats' =
         [simulation_stats EXCEPT !.total_attempts = @ + 1]
    /\ att' = NewAttempt
    /\ retries' = RetryTotal
    /\ hist' = [hist EXCEPT !.started_after =
                  IF shutdown_requested THEN @ + 1 ELSE @]
    /\ pc' = "detail"
    /\ UNCHANGED << ipvars, inputs, clock, handlers, shutdown_requested, user_agents,
                    i, success, delay, chunks_done, log, exit_code, wire >>

\* mutant of detail_next: an error that is no RequestException is swallowed
detail_next_Swallow(o) ==
    CASE o = "retry" -> "detail"
      [] o = "return" -> "click"
      [] o = "raise" -> "record"
      [] o = "error" -> "record"

\* mutant of detail_next: the except clause of the detail GET does not return
detail_next_FallThrough(o) ==
    CASE o = "retry" -> "detail"
      [] o = "return" -> "click"
      [] o = "raise" -> "click"
      [] o = "error" -> "finally"

\* simulate_session, lines 183-188: where control goes after the detail GET
\* ended as o
detail_next(o) ==
    CASE o = "retry" -> "detail"
      [] o = "return" -> "click"
      [] o = "raise" -> "record"
      [] o = "error" -> "finally"

\* mutant of click_result: response.raise_for_status() is not called
click_result_NoStatusCheck(o, status) ==
    CASE o = "raise" -> "exc"
      [] o = "error" -> "error"
      [] o = "return" -> "ok"

\* simulate_session, lines 193-203: what the click GET ending as o with the
\* given status makes of the attempt
click_result(o, status) ==
    CASE o = "raise" -> "exc"
      [] o = "error" -> "error"
      [] o = "return" -> IF raise_for_status(status) THEN "http_error" ELSE "ok"

\* simulate_session, lines 183-188: one transmission of the detail GET
Detail ==
    /\ pc = "detail"
    /\ \E r \in Responses :
         LET o == urlopen(retries, r)
             a == att
         IN  /\ pc' = detail_next(o)
             /\ CASE o = "retry" ->
                       /\ retries' = retries - 1
                       /\ att' = Retried(a, r)
                       /\ UNCHANGED << success, hist >>
                  [] o = "return" ->
                       /\ retries' = RetryTotal
                       /\ att' = Ended([a EXCEPT !.detail =
                                   IF r.status < 400 THEN "ok" ELSE "bad_status"])
                       /\ UNCHANGED << success, hist >>
                  [] o = "raise" ->
                       /\ att' = [a EXCEPT !.detail = "exc"]
                       /\ success' = FALSE
                       /\ UNCHANGED << retries, hist >>
                  [] o = "error" ->
                       /\ att' = Ended([a EXCEPT !.detail = "error"])
                       /\ hist' = [hist EXCEPT !.exit = "error"]
                       /\ UNCHANGED << retries, success >>
    /\ wire' = [wire EXCEPT !.detail = TRUE]
    /\ UNCHANGED << ipvars, inputs, clock, handlers, shutdown_requested,
                    simulation_stats, user_agents, i, delay, chunks_done, log,
                    exit_code >>

\* simulate_session, lines 190-203: one transmission of the click GET
Click ==
    /\ pc = "click"
    /\ \E r \in Responses :
         LET o == urlopen(retries, r)
             a == [att EXCEPT !.click_sent = TRUE]
         IN  IF o = "retry"
             THEN /\ retries' = retries - 1
                  /\ att' = Retried(a, r)
                  /\ pc' = "click"
                  /\ UNCHANGED << success, hist >>
             ELSE /\ att' = IF click_result(o, r.status) = "error"
                            THEN Ended([a EXCEPT !.click = "error"])
                            ELSE [a EXCEPT !.click = click_result(o, r.status),
                                           !.click_status =
                                              IF o = "return" THEN r.status ELSE 0]
                  /\ IF click_result(o, r.status) = "error"
                     THEN /\ pc' = "finally"
                          /\ hist' = [hist EXCEPT !.exit = "error"]
                          /\ UNCHANGED success
                     ELSE /\ pc' = "record"
                          /\ success' = (click_result(o, r.status) = "ok")
                          /\ UNCHANGED hist
                  /\ UNCHANGED retries
    /\ wire' = [wire EXCEPT !.click = TRUE]
    /\ UNCHANGED << ipvars, inputs, clock, handlers, shutdown_requested,
                    simulation_stats, user_agents, i, delay, chunks_done, log,
                    exit_code >>

\* mutant of Record: a failed visit is not counted
Record_DropsFailure ==
    /\ pc = "record"
    /\ simulation_stats' =
         IF success
         THEN [simulation_stats EXCEPT !.successful_visits = @ + 1]
         ELSE simulation_stats
    /\ hist' = [hist EXCEPT !.done = @ + 1,
                            !.finished_after =
                               IF shutdown_requested THEN @ + 1 ELSE @]
    /\ att' = NewAttempt
    /\ pc' = "post_check"
    /\ UNCHANGED << ipvars, inputs, clock, handlers, shutdown_requested, user_agents,
                    i, retries, success, delay, chunks_done, log, exit_code,
                    wire >>

\* run_simulation, lines 241-245: record what simulate_session returned
Record ==
    /\ pc = "record"
    /\ simulation_stats' =
         IF success
         THEN [simulation_stats EXCEPT !.successful_visits = @ + 1]
         ELSE [simulation_stats EXCEPT !.failed_visits = @ + 1]
    /\ hist' = [hist EXCEPT !.done = @ + 1,
                            !.finished_after =
                               IF shutdown_requested THEN @ + 1 ELSE @]
    /\ att' = NewAttempt
    /\ pc' = "post_check"
    /\ UNCHANGED << ipvars, inputs, clock, handlers, shutdown_requested, user_agents,
                    i, retries, success, delay, chunks_done, log, exit_code,
                    wire >>

\* lines 247-256: leave the loop, or draw the delay of the wait
PostCheck ==
    /\ pc = "post_check"
    /\ IF BreakAfterVisit
       THEN /\ pc' = "finally"
            /\ hist' = [Poll(hist) EXCEPT !.exit =
                          IF shutdown_requested THEN "shutdown" ELSE "complete"]
            /\ UNCHANGED << delay, chunks_done >>
       ELSE /\ \E d \in min_delay..max_delay : delay' = d
            /\ chunks_done' = 0
            /\ hist' = [hist EXCEPT !.waits = @ + 1, !.wait = NewWait]
            /\ pc' = "sleep_loop"
    /\ UNCHANGED << ipvars, inputs, clock, handlers, shutdown_requested,
                    simulation_stats, user_agents, i, retries, success, log,
                    exit_code, att, wire >>

\* lines 258-260: the head of the unit-sleep loop
SleepLoop ==
    /\ pc = "sleep_loop"
    /\ IF chunks_done >= sleep_chunks(delay)
       THEN /\ pc' = "rem_check"
            /\ UNCHANGED << chunks_done, hist >>
       ELSE IF BreakUnitSleep
            THEN /\ pc' = "rem_check"
                 /\ hist' = Poll(hist)
                 /\ UNCHANGED chunks_done
            ELSE /\ pc' = "sleeping"
                 /\ chunks_done' = chunks_done + 1
                 /\ UNCHANGED hist
    /\ UNCHANGED << ipvars, inputs, clock, handlers, shutdown_requested,
                    simulation_stats, user_agents, i, retries, success, delay,
                    log, exit_code, att, wire >>

\* line 261: time.sleep(1) returns
Sleeping ==
    /\ pc = "sleeping"
    /\ clock' = clock + Unit
    /\ hist' = [hist EXCEPT !.sleeps_after =
                                IF shutdown_requested THEN @ + 1 ELSE @,
                            !.wait.slept = @ + Unit,
                            !.wait.units = @ + 1]
    /\ pc' = "sleep_loop"
    /\ UNCHANGED << ipvars, inputs, handlers, shutdown_requested, simulation_stats,
                    user_agents, i, retries, success, delay, chunks_done, log,
                    exit_code, att, wire >>

\* line 263: sleep the remainder unless shutdown was requested
RemCheck ==
    /\ pc = "rem_check"
    /\ hist' = Poll(hist)
    /\ IF SleepRemainder
       THEN pc' = "rem_sleeping"
       ELSE pc' = "loop_head"
    /\ UNCHANGED << ipvars, inputs, clock, handlers, shutdown_requested,
                    simulation_stats, user_agents, i, retries, success, delay,
                    chunks_done, log, exit_code, att, wire >>

\* line 264: time.sleep(sleep_remainder) returns
RemSleeping ==
    /\ pc = "rem_sleeping"
    /\ clock' = clock + sleep_remainder(delay)
    /\ hist' = [hist EXCEPT !.sleeps_after =
                                IF shutdown_requested THEN @ + 1 ELSE @,
                            !.wait.slept = @ + sleep_remainder(delay),
                            !.wait.rems = @ + 1]
    /\ pc' = "loop_head"
    /\ UNCHANGED << ipvars, inputs, handlers, shutdown_requested, simulation_stats,
                    user_agents, i, retries, success, delay, chunks_done, log,
                    exit_code, att, wire >>

\* mutant of print_final_stats: the whole block is under the
\* `total_attempts > 0` guard of the success rate
print_final_stats_SkipEmpty ==
    IF Truthy(simulation_stats.start_time) /\ simulation_stats.total_attempts > 0
    THEN Append(log, [attempts |-> simulation_stats.total_attempts,
                      successes |-> simulation_stats.successful_visits,
                      failures |-> simulation_stats.failed_visits,
                      duration |-> clock - simulation_stats.start_time])
    ELSE log

\* print_final_stats, lines 46-60: the block logged, if any
print_final_stats ==
    IF Truthy(simulation_stats.start_time)
    THEN Append(log, [attempts |-> simulation_stats.total_attempts,
                      successes |-> simulation_stats.successful_visits,
                      failures |-> simulation_stats.failed_visits,
                      duration |-> clock - simulation_stats.start_time])
    ELSE log

\* run_simulation, lines 266-271: the except clauses log, finally prints
Finally ==
    /\ pc = "finally"
    /\ log' = print_final_stats
    /\ pc' = "return"
    /\ UNCHANGED << ipvars, inputs, clock, handlers, shutdown_requested,
                    simulation_stats, user_agents, i, retries, success, delay,
                    chunks_done, exit_code, att, wire, hist >>

\* main.py, lines 16-17: run_simulation returned, the process exits with 0
Return ==
    /\ pc = "return"
    /\ exit_code' = 0
    /\ pc' = "exited"
    /\ UNCHANGED << ipvars, inputs, clock, handlers, shutdown_requested,
                    simulation_stats, user_agents, i, retries, success, delay,
                    chunks_done, log, att, wire, hist >>

Next ==
    \/ Import
    \/ InstallHandlers
    \/ signal_handler
    \/ LoadAgents
    \/ LoopHead
    \/ Begin
    \/ Detail
    \/ Click
    \/ Record
    \/ PostCheck
    \/ SleepLoop
    \/ Sleeping
    \/ RemCheck
    \/ RemSleeping
    \/ Finally
    \/ Return

Spec == Init /\ [][Next]_vars

\* ------------------------------------------------------------ random_ip
\* mutant of is_reserved: the upper end of 172.16-31 is left out
is_reserved_OffByOne(first, second) ==
    \/ first = 10
    \/ first = 127
    \/ (first = 169 /\ second = 254)
    \/ (first = 172 /\ 16 <= second /\ second < 31)
    \/ (first = 192 /\ second = 168)

\* random_ip, lines 144-150: the candidate is private or reserved
is_reserved(first, second) ==
    \/ first = 10
    \/ first = 127
    \/ (first = 169 /\ second = 254)
    \/ (first = 172 /\ 16 <= second /\ second <= 31)
    \/ (first = 192 /\ second = 168)

\* a call of random_ip by simulate_session (line 176) in a process that is
\* running its first visit: the third and fourth octets take the ends of
\* their ranges, the first two every value
InitRandomIp ==
    /\ pc = "begin"
    /\ config_file = "ok"
    /\ config = RequiredKeys
    /\ agents_file = "ok"
    /\ count = 1
    /\ min_delay = 0
    /\ max_delay = 0
    /\ clock = 1
    /\ handlers = TRUE
    /\ shutdown_requested = FALSE
    /\ simulation_stats = [total_attempts |-> 0, successful_visits |-> 0,
                           failed_visits |-> 0, start_time |-> 1]
    /\ user_agents = load_user_agents
    /\ i = 1
    /\ retries = RetryTotal
    /\ success = FALSE
    /\ delay = 0
    /\ chunks_done = 0
    /\ log = << >>
    /\ exit_code = None
    /\ att = NewAttempt
    /\ wire = [detail |-> FALSE, click |-> FALSE]
    /\ hist = NewHist
    /\ octets = << >>
    /\ ip_pc = "sample"

process_vars ==
    << pc, inputs, clock, handlers, shutdown_requested, simulation_stats,
       user_agents, i, retries, success, delay, chunks_done, log, exit_code,
       att, wire, hist >>

\* random_ip, lines 136-142: draw the four octets
Sample ==
    /\ ip_pc = "sample"
    /\ \E first \in 1..FirstOctetMax, second \in 0..OctetMax,
          third \in {0, OctetMax}, fourth \in {1, LastOctetMax} :
          octets' = << first, second, third, fourth >>
    /\ ip_pc' = "test"
    /\ UNCHANGED process_vars

\* random_ip, lines 144-151: a private or reserved candidate is dropped
\* and the loop draws again
Reject ==
    /\ ip_pc = "test"
    /\ is_reserved(octets[1], octets[2])
    /\ octets' = << >>
    /\ ip_pc' = "sample"
    /\ UNCHANGED process_vars

\* random_ip, line 152: the candidate is returned
ReturnIp ==
    /\ ip_pc = "test"
    /\ ~is_reserved(octets[1], octets[2])
    /\ ip_pc' = "returned"
    /\ UNCHANGED << octets, process_vars >>

NextRandomIp ==
    \/ Sample
    \/ Reject
    \/ ReturnIp

SpecRandomIp == InitRandomIp /\ [][NextRandomIp]_vars

\* ------------------------------------- run_simulation called again
\* a process whose configuration and agent pool load, running MaxCount
\* visits with a fixed delay of one unit and a remainder
InitRerun ==
    /\ pc = "import"
    /\ config_file = "ok"
    /\ config = RequiredKeys
    /\ agents_file = "ok"
    /\ count = MaxCount
    /\ min_delay = Unit + 1
    /\ max_delay = min_delay
    /\ clock = 1
    /\ handlers = FALSE
    /\ shutdown_requested = FALSE
    /\ simulation_stats = [total_attempts |-> 0, successful_visits |-> 0,
                           failed_visits |-> 0, start_time |-> None]
    /\ user_agents = << >>
    /\ i = 0
    /\ retries = RetryTotal
    /\ success = FALSE
    /\ delay = 0
    /\ chunks_done = 0
    /\ log = << >>
    /\ exit_code = None
    /\ att = NewAttempt
    /\ wire = [detail |-> FALSE, click |-> FALSE]
    /\ hist = NewHist
    /\ octets = << >>
    /\ ip_pc = "idle"

\* run_simulation (exported by src/__init__.py) is called again by the
\* importing program after it returned: the locals of the call are new,
\* the module globals shutdown_requested and simulation_stats (lines
\* 32-38), the installed handlers and the log are what the last call left
Reinvoke ==
    /\ pc = "return"
    /\ hist.runs < MaxRuns
    /\ pc' = "main"
    /\ user_agents' = << >>
    /\ i' = 0
    /\ retries' = RetryTotal
    /\ success' = FALSE
    /\ delay' = 0
    /\ chunks_done' = 0
    /\ att' = NewAttempt
    /\ hist' = [NewHist EXCEPT !.runs = hist.runs + 1]
    /\ UNCHANGED << ipvars, inputs, clock, handlers, shutdown_requested,
                    simulation_stats, log, exit_code, wire >>

NextRerun ==
    \/ Next
    \/ Reinvoke

SpecRerun == InitRerun /\ [][NextRerun]_vars

\* ================================================================ claims
total_attempts == simulation_stats.total_attempts
successful_visits == simulation_stats.successful_visits
failed_visits == simulation_stats.failed_visits

\* run_simulation has returned after entering its loop
RunEnded == pc \in {"return", "exited"} /\ hist.exit \in {"complete", "shutdown", "error"}

C2_StopsAtFirstPoll ==
    /\ hist.observed =>
          /\ pc \in {"rem_check", "loop_head", "finally", "return", "exited"}
          /\ total_attempts = hist.done_at_observe
          /\ hist.done = hist.done_at_observe
    /\ hist.started_after <= 1
    /\ hist.finished_after + hist.sleeps_after <= 1

C2_Witness ==
    /\ pc = "exited"
    /\ hist.observed
    /\ hist.finished_after = 1
    /\ count >= 2
    /\ total_attempts = 1
    /\ hist.done_at_observe = 1

\* C3: when the detail-page request raises a request exception (network
\* error, timeout, retries exhausted), simulate_session returns False
\* without sending the click request, and recording the attempt adds 1 to
\* failed_visits and leaves successful_visits unchanged.
C3_DetailFailureSkipsClick ==
    /\ [](att.detail = "exc" => (pc = "record" /\ ~att.click_sent /\ ~success))
    /\ [][(pc = "record" /\ att.detail = "exc" /\ pc' # pc) =>
            /\ failed_visits' = failed_visits + 1
            /\ successful_visits' = successful_visits
            /\ wire' = wire]_vars

C3_Witness ==
    /\ pc = "record"
    /\ att.detail = "exc"
    /\ att.forced = RetryTotal

\* retries the request in flight has been through
Retries == att.forced + att.neterrs + att.by_header

\* C4: a click request answered by k retryable statuses and then a 200 is
\* sent again each time, for every k up to the budget of 5: the client
\* gives up only after RetryTotal retries, never hands a forcelist status
\* back to simulate_session, and the 200 makes the attempt a success that
\* Record counts in successful_visits.
C4_ClickRetriedUntil200 ==
    /\ [](pc = "click" => (retries = RetryTotal - Retries /\ retries >= 0))
    /\ []((pc = "record" /\ att.click = "exc") => Retries = RetryTotal)
    /\ []((pc = "record" /\ att.click_sent) =>
             /\ att.click_status \notin status_forcelist
             /\ att.click_status = 200 => success)
    /\ [][(pc = "record" /\ att.click_sent /\ att.click_status = 200 /\ pc' # pc) =>
            /\ successful_visits' = successful_visits + 1
            /\ failed_visits' = failed_visits]_vars

C4_Witness ==
    /\ pc = "record"
    /\ att.forced = RetryTotal
    /\ att.neterrs = 0
    /\ att.by_header = 0
    /\ att.click_status = 200
    /\ success

\* C5: once the loop has been entered, the statistics block (attempts,
\* successes, failures, duration) is logged exactly once, with the counters'
\* final values, on every exit path: completion, observed shutdown, and an
\* error escaping the loop body; nothing is logged before the loop is left.
C5_StatsExactlyOnce ==
    /\ Len(log) <= 1
    /\ pc \notin {"return", "exited"} => log = << >>
    /\ RunEnded =>
         /\ Len(log) = 1
         /\ log[1].attempts = total_attempts
         /\ log[1].successes = successful_visits
         /\ log[1].failures = failed_visits
         /\ log[1].duration = clock - simulation_stats.start_time

C5_Witness ==
    /\ pc = "exited"
    /\ hist.exit = "error"
    /\ Len(log) = 1
    /\ log[1].attempts = 2
    /\ log[1].successes + log[1].failures = 1

\* C6: when the agents file is missing or holds no non-blank line,
\* run_simulation returns before its loop: no request of either kind is
\* ever transmitted and the three counters stay at their initial values.
C6_EmptyPoolAborts ==
    agents_file # "ok" =>
        /\ ~wire.detail
        /\ ~wire.click
        /\ total_attempts = 0
        /\ successful_visits = 0
        /\ failed_visits = 0
        /\ pc \in {"import", "main", "load_agents", "return", "exited"}
        /\ hist.exit \in {"none", "abort"}

C6_Witness ==
    /\ pc = "exited"
    /\ exit_code = 0
    /\ agents_file = "blank"
    /\ hist.exit = "abort"
    /\ count >= 1

\* C7 as stated: every execution that exits with status zero has logged
\* the final statistics before exiting.
C7_Original == (pc = "exited" /\ exit_code = 0) => Len(log) >= 1

\* C7 amended: an execution that exits with status zero has logged the
\* final statistics, exactly once, if and only if the User-Agent pool was
\* not empty; this covers a run stopped by a signal.  A run aborted for an
\* empty pool exits with status zero and logs no statistics.
C7_StatsUnlessAborted ==
    (pc = "exited" /\ exit_code = 0) =>
        /\ user_agents # << >> => Len(log) = 1
        /\ user_agents = << >> => (log = << >> /\ hist.exit = "abort")

C7_Witness ==
    /\ pc = "exited"
    /\ exit_code = 0
    /\ hist.exit = "shutdown"
    /\ hist.observed
    /\ Len(log) = 1
    /\ log[1].attempts < count

\* C8: simulate_session returns True exactly when neither GET raised a
\* request exception and the click response's status is below 400; in
\* every other case in which it returns, it returns False; a request
\* exception never leaves it (only an error that is no RequestException
\* ends the loop).
C8_TrueOnlyIfBothSucceed ==
    /\ pc = "record" =>
         (success <=> /\ att.detail \in {"ok", "bad_status"}
                      /\ att.click_sent
                      /\ att.click # "exc"
                      /\ att.click_status < 400
                      /\ att.click_status >= 200)
    /\ (att.detail = "exc" \/ att.click \in {"exc", "http_error"}) =>
         (pc = "record" /\ ~success)
    /\ hist.exit = "error" => (att.detail = "error" \/ att.click = "error")

C8_Witness ==
    /\ pc = "record"
    /\ success
    /\ att.detail = "ok"
    /\ att.click_status = 304

\* C9 as stated: for either request, a request exception or a non-success
\* status left after the retries makes the attempt's result False.
C9_Original ==
    (pc = "record" /\ (att.detail \in {"exc", "bad_status"}
                        \/ att.click \in {"exc", "http_error"})) => ~success

\* C9 amended: a request exception from either GET, and a non-success
\* status (400 or above) of the click response, left after the retries
\* makes the attempt's result False, and the loop goes on: after a False
\* result it is left only at the last iteration or on shutdown.  A
\* non-success status of the detail response that the retry policy hands
\* back (e.g. 404) is not examined: the click is sent and decides alone.
C9_FailuresContained ==
    /\ []((pc = "record" /\ att.detail = "exc") => ~success)
    /\ []((pc = "record" /\ att.click_sent /\
             (att.click = "exc" \/ att.click_status >= 400)) => ~success)
    /\ [](att.detail = "bad_status" => (att.click_sent \/ pc = "click"))
    /\ [][(pc = "record" /\ ~success /\ pc' # pc) =>
             /\ pc' = "post_check"
             /\ failed_visits' = failed_visits + 1]_vars
    /\ [][(pc = "post_check" /\ ~success /\ pc' # pc) =>
             IF shutdown_requested \/ i = count
             THEN pc' = "finally" /\ hist'.exit # "error"
             ELSE pc' = "sleep_loop"]_vars

C9_Witness ==
    /\ pc = "begin"
    /\ i = 2
    /\ ~success
    /\ failed_visits = 1
    /\ ~shutdown_requested

\* C10 as stated: a request is sent again only after a response whose
\* status is in the forcelist; a response with any other status is never
\* retried.
C10_Original == att.by_header = 0

\* C10 amended: a request is retried at most 5 times; after a response it
\* is retried only when the status is in {429, 500, 502, 503, 504} or when,
\* with budget left, the status is 413 and the response carries a
\* Retry-After header (connection errors and timeouts draw on the same
\* budget); any other response is handed back without a retry; the
\* counters do not move during the retries, and exhaustion surfaces as one
\* request exception that Record counts as exactly one failed visit.
C10_BoundedSelectiveRetry ==
    /\ [](Retries <= RetryTotal)
    /\ [](att.by_header > 0 =>
            /\ att.cause[1] \in RETRY_AFTER_STATUS_CODES \ status_forcelist
            /\ att.cause[2])
    /\ []((pc = "record" /\ att.click_sent /\ att.click # "exc") =>
            /\ att.click_status \notin status_forcelist
            /\ att.click_status \in RETRY_AFTER_STATUS_CODES =>
                 (att.click = "http_error" /\ ~success))
    /\ [][(pc \in {"detail", "click"}) =>
            simulation_stats' = simulation_stats]_vars
    /\ [][(pc = "record" /\ (att.detail = "exc" \/ att.click = "exc") /\ pc' # pc) =>
            /\ Retries = RetryTotal
            /\ failed_visits' = failed_visits + 1
            /\ successful_visits' = successful_visits
            /\ total_attempts' = total_attempts]_vars

C10_Witness ==
    /\ pc = "record"
    /\ att.click = "exc"
    /\ att.forced = RetryTotal
    /\ failed_visits = 0

\* the wait in progress, or the one that has just ended
InWait == pc \in WaitPcs \/ (pc = "loop_head" /\ hist.waits >= 1)

\* C11: when the signal arrives during a wait after k one-second sleeps
\* have returned, the wait sleeps at most k + 1 seconds in total: at most
\* one more sleep returns (the one in progress, whose poll had passed), no
\* further one-second sleep is started after a poll, and the remainder is
\* slept only if it was already in progress when the signal arrived.
C11_WaitStopsOnShutdown ==
    (InWait /\ hist.wait.flag_units # None) =>
        LET w == hist.wait
            k == hist.wait.flag_units
        IN  /\ w.slept <= (k + 1) * Unit
            /\ w.units + w.rems <= k + 1
            /\ w.flag_pc \in {"sleep_loop", "rem_check"} =>
                 (w.units = k /\ w.rems = 0)
            /\ w.flag_pc = "sleeping" => (w.units <= k + 1 /\ w.rems = 0)
            /\ w.flag_pc = "rem_sleeping" => (w.units = k /\ w.rems <= 1)

C11_Witness ==
    /\ pc = "loop_head"
    /\ hist.wait.flag_units = 0
    /\ hist.wait.flag_pc = "sleeping"
    /\ hist.wait.units = 1
    /\ hist.wait.slept = Unit
    /\ delay = 2 * Unit + 1

\* C12: a wait for delay d during which no signal arrives performs exactly
\* floor(d) one-second sleeps, then one sleep of the fraction d - floor(d)
\* unless it is zero, so the time slept is d, never less; the delay lies
\* between min_delay and max_delay.
C12_FullWaitSleepsDelay ==
    /\ InWait =>
         /\ hist.wait.slept =
              hist.wait.units * Unit + hist.wait.rems * (delay % Unit)
         /\ hist.wait.units <= delay \div Unit
         /\ hist.wait.rems <= 1
         /\ min_delay <= delay /\ delay <= max_delay
    /\ (pc = "rem_sleeping" \/ hist.wait.rems = 1) =>
         hist.wait.units = delay \div Unit
    /\ (pc = "loop_head" /\ hist.waits >= 1 /\ hist.wait.flag_units = None) =>
         /\ hist.wait.units = delay \div Unit
         /\ hist.wait.rems = (IF delay % Unit > 0 THEN 1 ELSE 0)
         /\ hist.wait.slept = delay

C12_Witness ==
    /\ pc = "loop_head"
    /\ hist.waits >= 1
    /\ hist.wait.flag_units = None
    /\ delay = 2 * Unit + 1
    /\ hist.wait.units = 2
    /\ hist.wait.rems = 1
    /\ hist.wait.slept = delay

\* the blocks no returned address may lie in: loopback 127.x, link-local
\* 169.254.x, private 10.x, 172.16-31.x and 192.168.x
InExcludedBlock(o) ==
    \/ o[1] = 127
    \/ (o[1] = 169 /\ o[2] = 254)
    \/ o[1] = 10
    \/ (o[1] = 172 /\ o[2] \in 16..31)
    \/ (o[1] = 192 /\ o[2] = 168)

\* C13: every address random_ip returns lies outside the excluded blocks,
\* has four octets in 0..255 and a first octet in 1..223; a candidate
\* inside an excluded block is dropped and drawn again, never returned.
C13_RandomIpPublic ==
    /\ [](ip_pc = "returned" =>
            /\ Len(octets) = 4
            /\ \A n \in 1..4 : octets[n] \in 0..255
            /\ octets[1] \in 1..223
            /\ ~InExcludedBlock(octets))
    /\ [][(ip_pc = "test" /\ InExcludedBlock(octets)) =>
            (ip_pc' = "sample" /\ octets' = << >>)]_vars

C13_Witness ==
    /\ ip_pc = "returned"
    /\ octets[1] = 172
    /\ octets[2] = 32
    /\ octets[4] = 254

\* the configuration file is missing, is no JSON, or lacks a required key
ConfigUnusable ==
    \/ config_file \in {"missing", "malformed"}
    \/ \E k \in {"detail_url", "click_url", "user_id"} : k \notin config

\* C14: with an unusable configuration the process goes from import
\* straight to exit with a non-zero status: run_simulation is never
\* entered, no handler is installed, no iteration starts, no request is
\* sent.
C14_BadConfigExits ==
    /\ [](ConfigUnusable =>
            /\ pc \in {"import", "exited"}
            /\ pc = "exited" => (exit_code # None /\ exit_code # 0)
            /\ ~wire.detail /\ ~wire.click
            /\ ~handlers
            /\ i = 0
            /\ simulation_stats.start_time = None
            /\ simulation_stats.total_attempts = 0
            /\ log = << >>)
    /\ [][(ConfigUnusable /\ pc = "import") => pc' = "exited"]_vars

C14_Witness ==
    /\ pc = "exited"
    /\ config_file = "ok"
    /\ config = {"detail_url", "user_id"}
    /\ exit_code = 1

\* C15: an iteration that polls the flag set at its start leaves the loop
\* with the counters and the wire untouched; after a poll has seen the
\* flag no attempt is started or running; a signal leaves an attempt in
\* flight where it is, and that attempt still runs to its recording.
C15_NoNewAttemptAfterShutdown ==
    /\ [][(pc = "loop_head" /\ pc' # "loop_head" /\ shutdown_requested
             /\ i < count) =>
            /\ pc' = "finally"
            /\ simulation_stats' = simulation_stats
            /\ wire' = wire
            /\ att' = att]_vars
    /\ [](hist.observed => pc \notin {"begin", "detail", "click", "record"})
    /\ [](hist.observed =>
            simulation_stats.total_attempts = hist.done_at_observe)
    /\ [][(pc \in {"detail", "click", "record"} /\ ~shutdown_requested
             /\ shutdown_requested') =>
            (pc' = pc /\ att' = att /\ retries' = retries
               /\ simulation_stats' = simulation_stats)]_vars
    /\ [][(pc \in {"detail", "click"} /\ shutdown_requested
             /\ pc' \notin {"detail", "click"}) =>
            (pc' = "record" \/ (pc' = "finally" /\ hist'.exit = "error"))]_vars

\* the flag was set while the click POST of attempt 1 of 2 was running; the
\* attempt was recorded as a success and the loop stopped without starting
\* attempt 2
C15_Witness ==
    /\ pc = "finally"
    /\ hist.exit = "shutdown"
    /\ hist.observed
    /\ hist.started_after = 0
    /\ hist.finished_after = 1
    /\ count = 2
    /\ simulation_stats.total_attempts = 1
    /\ simulation_stats.successful_visits = 1

\* run_simulation was entered and has returned
Returned ==
    pc \in {"return", "exited"} /\ hist.exit # "none"

\* C16 as stated: every run of count >= 1 in which no shutdown signal
\* arrived has made exactly count - 1 waits.  It fails for a run aborted
\* for an empty pool and for a run an error escaped from.
C16_Original ==
    (Returned /\ ~shutdown_requested /\ count >= 1) =>
        hist.waits = count - 1

\* C16: a delay is drawn and slept only by the step after a recorded
\* attempt that is not the last and at whose end the flag is clear; after
\* the last iteration or with the flag set that step leaves the loop with
\* delay and clock untouched; wait k lies after attempt k and before
\* attempt k + 1; a run that completes all its iterations has made
\* count - 1 waits (none for count = 0).
C16_DelayOnlyBetweenAttempts ==
    /\ [][hist'.waits # hist.waits =>
            /\ pc = "post_check" /\ pc' = "sleep_loop"
            /\ ~shutdown_requested /\ i < count
            /\ hist'.waits = hist.waits + 1]_vars
    /\ [][(delay' # delay \/ clock' # clock) =>
            (pc \in {"post_check", "sleeping", "rem_sleeping"}
               /\ hist'.waits >= 1)]_vars
    /\ [][(pc = "post_check" /\ pc' # "post_check"
             /\ (shutdown_requested \/ i = count)) =>
            /\ pc' = "finally"
            /\ delay' = delay /\ clock' = clock
            /\ hist'.waits = hist.waits]_vars
    /\ [](pc \in WaitPcs =>
            /\ 1 <= i /\ i < count
            /\ hist.waits = i
            /\ simulation_stats.total_attempts = i
            /\ hist.done = i)
    /\ [](pc \in {"begin", "detail", "click", "record", "post_check"} =>
            hist.waits = i - 1)
    /\ [][(pc = "loop_head" /\ pc' # "loop_head" /\ hist.waits >= 1
             /\ ~shutdown_requested) =>
            pc' = "begin"]_vars
    /\ [](hist.exit = "complete" =>
            hist.waits = (IF count = 0 THEN 0 ELSE count - 1))
    /\ [](hist.waits <= (IF count = 0 THEN 0 ELSE count - 1))

\* two attempts, one wait between them, none after the second
C16_Witness ==
    /\ pc = "exited"
    /\ hist.exit = "complete"
    /\ ~shutdown_requested
    /\ count = 2
    /\ hist.waits = 1
    /\ hist.done = 2
    /\ clock > 1

\* C17: the flag is false until a signal is handled and true ever after;
\* no step takes it from true to false; the only step that changes it is a
\* run of signal_handler; a delivery that finds the flag set changes
\* nothing of the program's state (only the count of deliveries kept for
\* this property), so the run goes on as after a single delivery.
C17_FlagMonotonicSingleWriter ==
    /\ [](shutdown_requested <=> hist.signals >= 1)
    /\ [][shutdown_requested => shutdown_requested']_vars
    /\ [][shutdown_requested' # shutdown_requested =>
            /\ handlers
            /\ hist.signals = 0 /\ hist'.signals = 1
            /\ pc' = pc /\ simulation_stats' = simulation_stats]_vars
    /\ [][(shutdown_requested /\ hist'.signals # hist.signals) =>
            /\ hist' = [hist EXCEPT !.signals = @ + 1]
            /\ UNCHANGED << pc, ipvars, inputs, clock, handlers,
                            shutdown_requested, simulation_stats, user_agents,
                            i, retries, success, delay, chunks_done, log,
                            exit_code, att, wire >>]_vars

\* two deliveries during the first of two attempts: the run stops after it
C17_Witness ==
    /\ pc = "exited"
    /\ shutdown_requested
    /\ hist.signals = 2
    /\ hist.started_after = 0
    /\ hist.exit = "shutdown"
    /\ count = 2
    /\ simulation_stats.total_attempts = 1

\* C18: at the entry of every invocation of run_simulation the counters
\* of simulation_stats are zero and, unless a signal arrived since the
\* entry, shutdown_requested is false; the block logged at the end of an
\* invocation that recorded all its attempts shows that invocation's
\* attempts only.
C18_FreshStatePerInvocation ==
    /\ pc = "main" =>
         /\ simulation_stats.total_attempts = 0
         /\ simulation_stats.successful_visits = 0
         /\ simulation_stats.failed_visits = 0
         /\ hist.signals = 0 => ~shutdown_requested
    /\ (pc = "return" /\ hist.exit \in {"complete", "shutdown"}
          /\ Len(log) = hist.runs) =>
         log[Len(log)].attempts = hist.done

\* C19: within one run the three counters never decrease and
\* total_attempts never exceeds count; at every point where the flag is
\* polled (loop head, after the attempt, each unit of the wait, before the
\* remainder) and from the end of a loop left by completion or shutdown on,
\* through the logged block, total_attempts = successful_visits +
\* failed_visits; while an attempt is in flight (counted, not yet
\* recorded) total_attempts = successful_visits + failed_visits + 1.
C19_CounterInvariant ==
    /\ [][/\ simulation_stats'.total_attempts >= total_attempts
          /\ simulation_stats'.successful_visits >= successful_visits
          /\ simulation_stats'.failed_visits >= failed_visits]_vars
    /\ [](total_attempts <= count)
    /\ [](pc \in {"loop_head", "post_check", "sleep_loop", "sleeping",
                  "rem_check", "rem_sleeping"} =>
            total_attempts = successful_visits + failed_visits)
    /\ [](hist.exit \in {"complete", "shutdown"} =>
            /\ total_attempts = successful_visits + failed_visits
            /\ Len(log) = 1 =>
                 /\ log[1].attempts = total_attempts
                 /\ log[1].attempts = log[1].successes + log[1].failures)
    /\ [](pc \in {"detail", "click", "record"} =>
            total_attempts = successful_visits + failed_visits + 1)

\* the second attempt is in flight after one success
C19_Witness ==
    /\ pc = "click"
    /\ total_attempts = 2
    /\ successful_visits = 1
    /\ failed_visits = 0

\* C20: the step in which an error that is no RequestException leaves a
\* request goes from the attempt straight to the finally block with the
\* counters as they were; from then on no counter, request or sleep
\* follows, and the attempt stays counted in total_attempts only, so the
\* block logged shows attempts = successes + failures + 1.
C20_EscapedAttemptCountedOnly ==
    /\ [][(hist.exit # "error" /\ hist'.exit = "error") =>
            /\ pc \in {"detail", "click"}
            /\ pc' = "finally"
            /\ simulation_stats' = simulation_stats]_vars
    /\ [][hist.exit = "error" =>
            /\ simulation_stats' = simulation_stats
            /\ clock' = clock
            /\ wire' = wire
            /\ i' = i
            /\ hist'.waits = hist.waits
            /\ hist'.exit = "error"]_vars
    /\ [](hist.exit = "error" =>
            /\ pc \in {"finally", "return", "exited"}
            /\ total_attempts = successful_visits + failed_visits + 1
            /\ hist.waits = total_attempts - 1
            /\ pc \in {"return", "exited"} =>
                 /\ Len(log) = 1
                 /\ log[1].attempts = log[1].successes + log[1].failures + 1
                 /\ log[1].attempts = total_attempts)

\* the error left the second of two attempts, after one recorded failure
C20_Witness ==
    /\ pc = "exited"
    /\ hist.exit = "error"
    /\ count = 2
    /\ total_attempts = 2
    /\ failed_visits = 1
    /\ successful_visits = 0
    /\ log[1].attempts = 2

=============================================================================
